---- MODULE Spec2Model ----
(***************************************************************************)
(* Model of the LLM admission gate of astrbot_plugin_llm_mute              *)
(* (src/main.py, class LLMMutePlugin): per-session mute windows, minimum   *)
(* interval between generations, in-flight de-duplication, and the JSON    *)
(* snapshot that carries muted_until / last_generated across restarts.     *)
(*                                                                         *)
(* Time is the epoch clock in whole units.  Every handler of the plugin is *)
(* a coroutine without an await in its body, so the event loop runs each   *)
(* of them to completion before the next one starts: one action per        *)
(* handler.                                                                *)
(***************************************************************************)
EXTENDS Integers, FiniteSets, Sequences, TLC

\* ---------------------------------------------------------------- bounds
Sessions == {"s1", "s2"}
MaxTime == 2
MaxDur == 1
MaxInterval == 1
\* the one session of the runs that persist
DurableSessions == {"s1"}

\* config["mute_command"]["default_duration"], used when no duration is given
DefaultDuration == 2

Times == 0..MaxTime
\* the optional command argument: <<>> is None, <<d>> an explicit duration
Durations == {<<>>} \cup {<<d>> : d \in 0..MaxDur}
SaveOutcomes == {"ok", "err", "partial"}

VARIABLES
    config,          \* self.config (persistence.enabled, mute_command.enabled, llm_interval.interval)
    muted_until,     \* self.muted_until : dict sid -> instant
    generating,      \* self.generating : set of sid
    last_generated,  \* self.last_generated : dict sid -> instant
    clock,           \* datetime.now().timestamp()
    disk,            \* the file data/llm_mute/data.json
    out,             \* what the step just taken produced (decision, return value, reply, save)
    hist_admitted,   \* history: admissions of a session since its last response in this process
    hist_mute_exp,   \* history: now + duration of the last _mute of a session in this process
    hist_completed,  \* history: instant of the last completion of a session in this process
    hist_saved       \* history: the two maps as they were at the last complete write

vars == <<config, muted_until, generating, last_generated, clock, disk, out,
          hist_admitted, hist_mute_exp, hist_completed, hist_saved>>

\* ---------------------------------------------------------------- dicts
EmptyMap == [k \in {} |-> 0]
Put(m, k, v) == [x \in (DOMAIN m) \cup {k} |-> IF x = k THEN v ELSE m[x]]
Pop(m, k) == [x \in (DOMAIN m) \ {k} |-> m[x]]
Get(m, k, default) == IF k \in DOMAIN m THEN m[k] ELSE default

\* ---------------------------------------------------------------- snapshot
\* json.dump of a dict: the set of its "key": value members
Dump(m) == {<<k, m[k]>> : k \in DOMAIN m}
\* json.load of an object: the dict of its members
Parse(members) ==
    [k \in {p[1] : p \in members} |-> (CHOOSE p \in members : p[1] = k)[2]]

\* The file: kind "absent" (no file), "corrupt" (not JSON), "not_object" (JSON,
\* but no object at top level), "ok" (an object whose fields are maps of
\* instants) or "mistyped" (an object with a field that is no map of
\* instants); fields are the top-level fields present, each with its members.
SnapshotFields == {"muted_until", "last_generated"}
NoFile == [kind |-> "absent", fields |-> {}, muted_until |-> {}, last_generated |-> {}]
Garbled == [kind |-> "corrupt", fields |-> {}, muted_until |-> {}, last_generated |-> {}]
NotObject ==
    [kind |-> "not_object", fields |-> {}, muted_until |-> {}, last_generated |-> {}]

\* _save: "ok" writes the whole document; "err" raises before the file is
\* opened (mkdir / open fails) and leaves it alone; "partial" raises after
\* open("w") truncated the file, leaving an incomplete document.  The
\* exception is caught and logged in every case.
save(mu, lg, old, outcome) ==
    CASE outcome = "ok" ->
            [kind |-> "ok", fields |-> SnapshotFields,
             muted_until |-> Dump(mu), last_generated |-> Dump(lg)]
      [] outcome = "err" -> old
      [] OTHER -> Garbled

\* _load: no file -> return; json.load or data.get raising -> caught, nothing
\* assigned; otherwise each field as data.get(...) gives it, `or dict()`
load_muted_until(d, mu) ==
    IF d.kind \in {"ok", "mistyped"}
    THEN (IF "muted_until" \notin d.fields \/ d.muted_until = {}
          THEN EmptyMap ELSE Parse(d.muted_until))
    ELSE mu

\* (mutant) last_generated never read back
load_last_generated_skipped(d, lg) == lg

load_last_generated(d, lg) ==
    IF d.kind \in {"ok", "mistyped"}
    THEN (IF "last_generated" \notin d.fields \/ d.last_generated = {}
          THEN EmptyMap ELSE Parse(d.last_generated))
    ELSE lg

\* the history of the last complete write
saved_after(mu, lg, old, outcome) ==
    CASE outcome = "ok" -> [muted_until |-> mu, last_generated |-> lg]
      [] outcome = "err" -> old
      [] OTHER -> [muted_until |-> EmptyMap, last_generated |-> EmptyMap]

\* ---------------------------------------------------------------- mute registry
\* (mutant) the expiry compared with <= instead of <
is_muted_le(mu, sid, now) ==
    IF sid \notin DOMAIN mu THEN FALSE
    ELSE now <= mu[sid]

\* _is_muted: the value returned
is_muted(mu, sid, now) ==
    IF sid \notin DOMAIN mu THEN FALSE
    ELSE now < mu[sid]

\* (mutant) an expired entry left in place
is_muted_pop_never(mu, sid, now) == mu

\* (mutant) the entry popped on every read
is_muted_pop_always(mu, sid, now) == Pop(mu, sid)

\* _is_muted: self.muted_until afterwards (an expired entry is popped)
is_muted_pop(mu, sid, now) ==
    IF sid \in DOMAIN mu /\ ~(now < mu[sid]) THEN Pop(mu, sid) ELSE mu

\* _mute: the duration used
mute_duration(duration) ==
    IF duration = <<>> THEN DefaultDuration ELSE duration[1]

\* (mutant) a mute added on top of an entry that is still there
mute_stacking(mu, sid, duration, now) ==
    Put(mu, sid, (IF sid \in DOMAIN mu /\ mu[sid] > now THEN mu[sid] ELSE now)
                 + mute_duration(duration))

\* _mute: self.muted_until afterwards
mute(mu, sid, duration, now) ==
    Put(mu, sid, now + mute_duration(duration))

\* (mutant) _unmute reporting a removal whether or not there was an entry
unmute_ret_always(mu, sid) == TRUE

\* _unmute: the value returned
unmute_ret(mu, sid) == sid \in DOMAIN mu

\* _unmute: self.muted_until afterwards
unmute(mu, sid) == Pop(mu, sid)

\* sec2str: the non-zero parts of a whole number of seconds, largest unit first
sec2str(seconds) ==
    LET day == seconds \div 86400
        s1 == IF day # 0 THEN seconds % 86400 ELSE seconds
        hour == s1 \div 3600
        s2 == IF hour # 0 THEN s1 % 3600 ELSE s1
        minute == s2 \div 60
        s3 == IF minute # 0 THEN s2 % 60 ELSE s2
    IN  (IF day # 0 THEN << <<day, "day">> >> ELSE <<>>)
        \o (IF hour # 0 THEN << <<hour, "hour">> >> ELSE <<>>)
        \o (IF minute # 0 THEN << <<minute, "minute">> >> ELSE <<>>)
        \o (IF s3 # 0 THEN << <<s3, "second">> >> ELSE <<>>)

\* ts2str: the instant, formatted to the second
ts2str(ts) == <<"instant", ts>>

\* get_mute_left_time: the "not muted" text without entry, else the formatted
\* difference between the entry and the clock
get_mute_left_time(mu, sid, now) ==
    IF sid \notin DOMAIN mu THEN <<"unmuted">>
    ELSE <<"duration", sec2str(mu[sid] - now)>>

\* get_mute_until_time: the "not muted" text without entry, else the formatted entry
get_mute_until_time(mu, sid) ==
    IF sid \notin DOMAIN mu THEN <<"unmuted">>
    ELSE <<"until", ts2str(mu[sid])>>

\* (mutant) the guard without the mute_command.enabled test
command_allowed_admin_only(enabled, is_admin) == is_admin

\* the guard of both commands: the feature enabled and the sender an administrator
command_allowed(enabled, is_admin) == enabled /\ is_admin

\* (mutant) _save without its try / except: a failed write raises into the caller
save_raises(outcome) == outcome \notin {"err", "partial"}

\* _save returns normally whatever became of the write: the exception is
\* caught and logged inside it
save_returns(outcome) == TRUE

\* ---------------------------------------------------------------- admission
\* (mutant) the in-flight check left out
req_decision_no_inflight(muted, msg_time, last, interval, inflight) ==
    IF muted THEN "muted"
    ELSE IF msg_time - last < interval THEN "cooldown"
    ELSE "admit"

\* (mutant) the cooldown check placed before the mute check
req_decision_cooldown_first(muted, msg_time, last, interval, inflight) ==
    IF msg_time - last < interval THEN "cooldown"
    ELSE IF muted THEN "muted"
    ELSE IF inflight THEN "generating"
    ELSE "admit"

\* (mutant) the interval compared with <= instead of <
req_decision_le(muted, msg_time, last, interval, inflight) ==
    IF muted THEN "muted"
    ELSE IF msg_time - last <= interval THEN "cooldown"
    ELSE IF inflight THEN "generating"
    ELSE "admit"

\* (mutant) an interval of 0 taken as "no throttling at all"
req_decision_zero_off(muted, msg_time, last, interval, inflight) ==
    IF muted THEN "muted"
    ELSE IF interval > 0 /\ msg_time - last < interval THEN "cooldown"
    ELSE IF inflight THEN "generating"
    ELSE "admit"

\* on_llm_req, the three checks in order
req_decision(muted, msg_time, last, interval, inflight) ==
    IF muted THEN "muted"
    ELSE IF msg_time - last < interval THEN "cooldown"
    ELSE IF inflight THEN "generating"
    ELSE "admit"

\* (mutant) a rejected request releasing the in-flight mark
req_generating_release(gen, sid, decision) ==
    IF decision = "admit" THEN gen \cup {sid} ELSE gen \ {sid}

\* on_llm_req: self.generating afterwards
req_generating(gen, sid, decision) ==
    IF decision = "admit" THEN gen \cup {sid} ELSE gen

\* on_llm_resp: self.generating afterwards
resp_generating(gen, sid) ==
    IF sid \in gen THEN gen \ {sid} ELSE gen

\* (mutant) the completion recorded only for a session that was in flight
resp_last_generated_if_inflight(lg, gen, sid, now) ==
    IF sid \in gen THEN Put(lg, sid, now) ELSE lg

\* on_llm_resp: self.last_generated afterwards
resp_last_generated(lg, gen, sid, now) == Put(lg, sid, now)

NoOut(op) ==
    [op |-> op, sid |-> "-", ts |-> 0, res |-> "-", save |-> "none", emit |-> FALSE,
     left |-> <<>>]

\* ---------------------------------------------------------------- states
\* interval: no throttling, or the widest window
Configs == [persistence : BOOLEAN, mute_enabled : BOOLEAN, interval : {0, MaxInterval}]

\* the state after construction, over one of the files docs
InitOver(cfgs, docs) ==
    /\ config \in cfgs
    /\ muted_until = EmptyMap
    /\ generating = {}
    /\ last_generated = EmptyMap
    /\ clock = 0
    /\ disk \in docs
    /\ out = NoOut("init")
    /\ hist_admitted = [s \in Sessions |-> 0]
    /\ hist_mute_exp = EmptyMap
    /\ hist_completed = EmptyMap
    /\ hist_saved = [muted_until |-> EmptyMap, last_generated |-> EmptyMap]

\* the state after construction, no snapshot file written yet
InitWith(cfgs) == InitOver(cfgs, {NoFile})

\* the wall clock advances
Tick ==
    /\ clock < MaxTime
    /\ clock' = clock + 1
    /\ out' = NoOut("tick")
    /\ UNCHANGED <<config, muted_until, generating, last_generated, disk,
                   hist_admitted, hist_mute_exp, hist_completed, hist_saved>>

on_llm_req(sid, msg_time) ==
    LET decision == req_decision(is_muted(muted_until, sid, clock), msg_time,
                                 Get(last_generated, sid, 0), config.interval,
                                 sid \in generating)
    IN  /\ muted_until' = is_muted_pop(muted_until, sid, clock)
        /\ generating' = req_generating(generating, sid, decision)
        /\ out' = [NoOut("req") EXCEPT
                      !.sid = sid, !.ts = msg_time, !.res = decision,
                      !.left = IF decision = "muted"
                               THEN get_mute_left_time(muted_until', sid, clock)
                               ELSE <<>>]
        /\ hist_admitted' =
              IF decision = "admit"
              THEN [hist_admitted EXCEPT ![sid] = IF @ < 2 THEN @ + 1 ELSE @]
              ELSE hist_admitted
        /\ UNCHANGED <<config, last_generated, clock, disk, hist_mute_exp,
                       hist_completed, hist_saved>>

on_llm_resp(sid) ==
    /\ generating' = resp_generating(generating, sid)
    /\ last_generated' = resp_last_generated(last_generated, generating, sid, clock)
    /\ out' = [NoOut("resp") EXCEPT
                  !.sid = sid, !.res = IF sid \in generating THEN "ended" ELSE "unmatched"]
    /\ hist_admitted' = [hist_admitted EXCEPT ![sid] = 0]
    /\ hist_completed' = Put(hist_completed, sid, clock)
    /\ UNCHANGED <<config, muted_until, clock, disk, hist_mute_exp, hist_saved>>

llm_mute_command(sid, duration, is_admin) ==
    IF command_allowed(config.mute_enabled, is_admin)
    THEN \E outcome \in (IF config.persistence THEN SaveOutcomes ELSE {"none"}) :
            /\ muted_until' = mute(muted_until, sid, duration, clock)
            /\ disk' = IF outcome = "none" THEN disk
                       ELSE save(muted_until', last_generated, disk, outcome)
            /\ hist_saved' = IF outcome = "none" THEN hist_saved
                             ELSE saved_after(muted_until', last_generated, hist_saved, outcome)
            /\ hist_mute_exp' = Put(hist_mute_exp, sid,
                                    clock + (IF duration = <<>> THEN DefaultDuration
                                             ELSE duration[1]))
            /\ out' = [NoOut("mute") EXCEPT
                          !.sid = sid, !.save = outcome,
                          !.res = IF save_returns(outcome) THEN "muted" ELSE "raised",
                          !.emit = save_returns(outcome),
                          !.left = IF save_returns(outcome)
                                   THEN get_mute_left_time(muted_until', sid, clock)
                                   ELSE <<>>]
            /\ UNCHANGED <<config, generating, last_generated, clock,
                           hist_admitted, hist_completed>>
    ELSE /\ out' = [NoOut("mute") EXCEPT !.sid = sid, !.res = "dropped"]
         /\ UNCHANGED <<config, muted_until, generating, last_generated, clock, disk,
                        hist_admitted, hist_mute_exp, hist_completed, hist_saved>>

llm_unmute_command(sid, is_admin) ==
    IF command_allowed(config.mute_enabled, is_admin)
    THEN IF unmute_ret(muted_until, sid)
         THEN \E outcome \in (IF config.persistence THEN SaveOutcomes ELSE {"none"}) :
                 /\ muted_until' = unmute(muted_until, sid)
                 /\ disk' = IF outcome = "none" THEN disk
                            ELSE save(muted_until', last_generated, disk, outcome)
                 /\ hist_saved' = IF outcome = "none" THEN hist_saved
                                  ELSE saved_after(muted_until', last_generated,
                                                   hist_saved, outcome)
                 /\ hist_mute_exp' = Pop(hist_mute_exp, sid)
                 /\ out' = [NoOut("unmute") EXCEPT
                               !.sid = sid, !.save = outcome,
                               !.res = IF save_returns(outcome) THEN "removed" ELSE "raised",
                               !.emit = save_returns(outcome)]
                 /\ UNCHANGED <<config, generating, last_generated, clock,
                                hist_admitted, hist_completed>>
         ELSE /\ hist_mute_exp' = Pop(hist_mute_exp, sid)
              /\ out' = [NoOut("unmute") EXCEPT !.sid = sid, !.res = "absent"]
              /\ UNCHANGED <<config, muted_until, generating, last_generated, clock,
                             disk, hist_admitted, hist_completed, hist_saved>>
    ELSE /\ out' = [NoOut("unmute") EXCEPT !.sid = sid, !.res = "dropped"]
         /\ UNCHANGED <<config, muted_until, generating, last_generated, clock, disk,
                        hist_admitted, hist_mute_exp, hist_completed, hist_saved>>

\* graceful shutdown
terminate ==
    IF config.persistence
    THEN \E outcome \in SaveOutcomes :
            /\ disk' = save(muted_until, last_generated, disk, outcome)
            /\ hist_saved' = saved_after(muted_until, last_generated, hist_saved, outcome)
            /\ out' = [NoOut("terminate") EXCEPT
                          !.save = outcome,
                          !.res = IF save_returns(outcome) THEN "-" ELSE "raised"]
            /\ UNCHANGED <<config, muted_until, generating, last_generated, clock,
                           hist_admitted, hist_mute_exp, hist_completed>>
    ELSE /\ out' = NoOut("terminate")
         /\ UNCHANGED <<config, muted_until, generating, last_generated, clock, disk,
                        hist_admitted, hist_mute_exp, hist_completed, hist_saved>>

\* the process ends (gracefully or not) and a fresh instance is constructed
\* (__init__) and initialized (initialize)
restart ==
    /\ muted_until' = IF config.persistence THEN load_muted_until(disk, EmptyMap)
                      ELSE EmptyMap
    /\ last_generated' = IF config.persistence THEN load_last_generated(disk, EmptyMap)
                         ELSE EmptyMap
    /\ generating' = {}
    /\ out' = [NoOut("restart") EXCEPT
                  !.res = IF generating # {} THEN "inflight_dropped" ELSE "-"]
    /\ hist_admitted' = [s \in Sessions |-> 0]
    /\ hist_mute_exp' = EmptyMap
    /\ hist_completed' = EmptyMap
    /\ UNCHANGED <<config, clock, disk, hist_saved>>

\* the events the host delivers for the sessions S
Step(S) ==
    \/ Tick
    \/ \E sid \in S, msg_time \in Times : on_llm_req(sid, msg_time)
    \/ \E sid \in S : on_llm_resp(sid)
    \/ \E sid \in S, duration \in Durations, is_admin \in BOOLEAN :
          llm_mute_command(sid, duration, is_admin)
    \/ \E sid \in S, is_admin \in BOOLEAN : llm_unmute_command(sid, is_admin)
    \/ terminate
    \/ restart

\* persistence.enabled = false: the gate in memory, two sessions
Init == InitWith({c \in Configs : ~c.persistence})
Next == Step(Sessions)
Spec == Init /\ [][Next]_vars

\* persistence.enabled = true: the gate and its snapshot file, one session
InitDurable == InitWith({c \in Configs : c.persistence})
NextDurable == Step(DurableSessions)
SpecDurable == InitDurable /\ [][NextDurable]_vars

\* what the first start may find on disk: maps of instants ...
InstantMaps == UNION {[D -> Times] : D \in SUBSET Sessions}
\* ... a map whose values are no numbers ...
TextMaps == {[s \in D |-> "x"] : D \in (SUBSET Sessions) \ {{}}}
\* ... in a well-typed document, with both fields, one of them or none ...
TypedDocuments ==
    {[kind |-> "ok", fields |-> F,
      muted_until |-> IF "muted_until" \in F THEN Dump(mu) ELSE {},
      last_generated |-> IF "last_generated" \in F THEN Dump(lg) ELSE {}] :
        F \in SUBSET SnapshotFields, mu \in InstantMaps, lg \in InstantMaps}
\* ... or in a document with one field of the wrong type
MistypedMutedUntil ==
    {[kind |-> "mistyped", fields |-> SnapshotFields,
      muted_until |-> Dump(mu), last_generated |-> Dump(lg)] :
        mu \in TextMaps, lg \in InstantMaps}
MistypedLastGenerated ==
    {[kind |-> "mistyped", fields |-> SnapshotFields,
      muted_until |-> Dump(mu), last_generated |-> Dump(lg)] :
        mu \in InstantMaps, lg \in TextMaps}

\* persistence.enabled = true: the first start over any file (_load alone)
InitLoad ==
    \/ InitOver({c \in Configs : c.persistence}, {NoFile, Garbled, NotObject})
    \/ InitOver({c \in Configs : c.persistence}, TypedDocuments)
    \/ InitOver({c \in Configs : c.persistence}, MistypedMutedUntil)
    \/ InitOver({c \in Configs : c.persistence}, MistypedLastGenerated)
NextLoad == restart
SpecLoad == InitLoad /\ [][NextLoad]_vars

\* ================================================================ properties

\* what the spec calls "muted": an entry whose expiry is still ahead
Muted(s) == s \in DOMAIN muted_until /\ clock < muted_until[s]

\* what the spec calls "within cooldown" for a request stamped ts: a recorded
\* completion less than the interval before ts (no completion: never)
WithinCooldown(s, ts) ==
    s \in DOMAIN last_generated /\ ts - last_generated[s] < config.interval

\* C1: mutual exclusion.  In every reachable state, no session has been
\* admitted more than once since its last on_llm_resp (or since the process
\* started): two requests for one session are never both admitted.
C1_MutualExclusion == \A s \in Sessions : hist_admitted[s] <= 1

\* a second request for a session in flight, past mute and cooldown, was rejected
C1_Witness ==
    /\ out.op = "req" /\ out.res = "generating"
    /\ hist_admitted[out.sid] = 1
    /\ out.sid \in generating

\* C2: admission condition.  Every on_llm_req(s, ts) admits (decision
\* "admit", s added to generating) if and only if s is not muted, the time
\* since the last completion is at least the interval (a session without
\* completion counts as +infinity), and s is not in generating; in every
\* other case the event is stopped and generating is left as it was.
C2_AdmissionCondition ==
    [][\A s \in Sessions, ts \in Times :
          on_llm_req(s, ts) =>
             IF ~Muted(s) /\ ~WithinCooldown(s, ts) /\ s \notin generating
             THEN out'.res = "admit" /\ generating' = generating \cup {s}
             ELSE out'.res \in {"muted", "cooldown", "generating"}
                  /\ generating' = generating]_vars

\* C3: priority order mute > cooldown > in-flight.  After every on_llm_req:
\* a muted session is rejected as "muted" whatever else holds; a session not
\* muted but within cooldown is rejected as "cooldown" even when in flight;
\* "generating" is reported only when it is neither muted nor within cooldown.
C3_PriorityOrder ==
    out.op = "req" =>
        /\ Muted(out.sid) => out.res = "muted"
        /\ (~Muted(out.sid) /\ WithinCooldown(out.sid, out.ts)) => out.res = "cooldown"
        /\ out.res = "generating" =>
              /\ ~Muted(out.sid)
              /\ ~WithinCooldown(out.sid, out.ts)
              /\ out.sid \in generating

\* a request of a session that is muted, within cooldown and in flight at once
C3_Witness ==
    /\ out.op = "req" /\ out.res = "muted"
    /\ WithinCooldown(out.sid, out.ts)
    /\ out.sid \in generating

\* C4: mute window.  After _mute(s, d) at clock value now, with no later
\* mute or unmute of s in the process, a request of s handled at clock value
\* t >= now finds s muted exactly when t < now + d.
C4_MuteWindow ==
    (out.op = "req" /\ out.sid \in DOMAIN hist_mute_exp) =>
        (out.res = "muted") = (clock < hist_mute_exp[out.sid])

\* a request handled at the very instant a mute of positive length ends
C4_Witness ==
    /\ out.op = "req" /\ out.sid \in DOMAIN hist_mute_exp
    /\ clock = hist_mute_exp[out.sid] /\ clock >= 2
    /\ out.res # "muted"

\* C5: restart.  A fresh instance initialized over a complete snapshot, with
\* persistence enabled, holds exactly the saved muted_until and
\* last_generated, and an empty generating.
C5_RestartPreserves ==
    (out.op = "restart" /\ config.persistence /\ disk.kind = "ok") =>
        /\ muted_until = hist_saved.muted_until
        /\ last_generated = hist_saved.last_generated
        /\ generating = {}

\* a restart that dropped an in-flight session and brought back a mute and a completion
C5_Witness ==
    /\ out.op = "restart" /\ out.res = "inflight_dropped"
    /\ config.persistence /\ disk.kind = "ok"
    /\ muted_until # EmptyMap /\ last_generated # EmptyMap

\* C6: save after every durable mutation.  With persistence enabled and no
\* write failing, right after a mute, an unmute that removed an entry, or a
\* response completion, the snapshot is complete and equals the two maps in
\* memory.
C6_SavedAfterMutation ==
    ( /\ config.persistence
      /\ out.save \notin {"err", "partial"}
      /\ \/ out.op = "mute" /\ out.res = "muted"
         \/ out.op = "unmute" /\ out.res = "removed"
         \/ out.op = "resp" ) =>
        /\ disk.kind = "ok"
        /\ hist_saved.muted_until = muted_until
        /\ hist_saved.last_generated = last_generated

\* C7: response completion is unconditional.  on_llm_resp(s) can always run,
\* and every run of it, with s in generating or not, leaves s out of
\* generating and last_generated[s] at the clock, and leaves muted_until and
\* the entries of every other session as they were.
C7_ResponseUnconditional ==
    /\ [](\A s \in Sessions : ENABLED on_llm_resp(s))
    /\ [][out'.op = "resp" => \A s \in {out'.sid} :
          on_llm_resp(s) =>
             /\ s \notin generating'
             /\ s \in DOMAIN last_generated' /\ last_generated'[s] = clock
             /\ muted_until' = muted_until
             /\ \A o \in Sessions \ {s} :
                   /\ (o \in generating') = (o \in generating)
                   /\ (o \in DOMAIN last_generated') = (o \in DOMAIN last_generated)
                   /\ o \in DOMAIN last_generated =>
                         last_generated'[o] = last_generated[o]]_vars

\* a completion without admission, recorded while another session is in flight
C7_Witness ==
    /\ out.op = "resp" /\ out.res = "unmatched"
    /\ out.sid \in DOMAIN last_generated /\ last_generated[out.sid] = clock
    /\ \E o \in Sessions \ {out.sid} : o \in generating /\ o \in DOMAIN last_generated

\* C8: cooldown window.  After a completion of s recorded at t0 in the
\* process (and none later), a request of s that is not muted, stamped
\* ts >= t0, is rejected for cooldown exactly when ts < t0 + interval.
C8_CooldownWindow ==
    ( /\ out.op = "req" /\ out.res # "muted"
      /\ out.sid \in DOMAIN hist_completed
      /\ out.ts >= hist_completed[out.sid] ) =>
        (out.res = "cooldown") = (out.ts < hist_completed[out.sid] + config.interval)

\* a request stamped inside the window of a completion recorded after time 0,
\* rejected for cooldown
C8_Witness ==
    /\ out.op = "req" /\ out.res = "cooldown"
    /\ out.sid \in DOMAIN hist_completed
    /\ hist_completed[out.sid] >= 1
    /\ out.ts >= hist_completed[out.sid]

\* C9: a session without recorded completion is never throttled: no request
\* of a session that has no last_generated entry is rejected for cooldown.
C9_NeverThrottledWithoutCompletion ==
    ~(out.op = "req" /\ out.res = "cooldown" /\ out.sid \notin DOMAIN last_generated)

\* C10: unmute.  When the llm_unmute command reaches _unmute(s): if s has an
\* entry it is removed, True is returned, s is no longer muted and the
\* confirmation is emitted; if s has none, False is returned, nothing is
\* emitted, no map changes and nothing is written.  A command that is
\* disabled or not from an administrator emits nothing.
C10_UnmuteContract ==
    [][\A s \in Sessions, a \in BOOLEAN :
          llm_unmute_command(s, a) =>
             IF config.mute_enabled /\ a
             THEN IF s \in DOMAIN muted_until
                  THEN /\ out'.res = "removed" /\ out'.emit
                       /\ s \notin DOMAIN muted_until'
                       /\ ~is_muted(muted_until', s, clock)
                       /\ \A o \in DOMAIN muted_until \ {s} :
                             o \in DOMAIN muted_until' /\ muted_until'[o] = muted_until[o]
                  ELSE /\ out'.res = "absent" /\ ~out'.emit
                       /\ out'.save = "none"
                       /\ muted_until' = muted_until
                       /\ last_generated' = last_generated
                       /\ disk' = disk
             ELSE ~out'.emit]_vars

\* an unmute that removed an entry and wrote the snapshot
C10_Witness ==
    /\ out.op = "unmute" /\ out.res = "removed" /\ out.emit
    /\ out.save = "ok" /\ out.sid \notin DOMAIN muted_until
    /\ hist_saved.muted_until = muted_until

\* C11: mute is last-write-wins.  Whatever mutes, requests and other events
\* came before, while the entry of the last _mute of s is in muted_until it
\* equals the clock of that mute plus its duration; right after a mute
\* command that went through, the entry is there with that value.
C11_LastWriteWins ==
    /\ \A s \in (DOMAIN muted_until) \cap (DOMAIN hist_mute_exp) :
          muted_until[s] = hist_mute_exp[s]
    /\ (out.op = "mute" /\ out.res = "muted") =>
          /\ out.sid \in DOMAIN muted_until
          /\ out.sid \in DOMAIN hist_mute_exp
          /\ muted_until[out.sid] = hist_mute_exp[out.sid]

\* a mute shorter than the earlier one still on file: the write of the new mute
\* failed before the file was opened, so the snapshot shows the longer, earlier entry
C11_Witness ==
    /\ out.op = "mute" /\ out.res = "muted" /\ out.save = "err"
    /\ disk.kind = "ok"
    /\ out.sid \in DOMAIN hist_saved.muted_until
    /\ hist_saved.muted_until[out.sid] > muted_until[out.sid]
    /\ hist_saved.muted_until[out.sid] > clock

\* C12: lazy expiry on read.  A request of s reads _is_muted(s): with an
\* entry still ahead of the clock it is rejected as muted and muted_until is
\* left as it was; with an entry at or behind the clock it is not muted and
\* exactly that entry is removed, after which get_mute_left_time and
\* get_mute_until_time report "unmuted" and _is_muted is false at every later
\* clock value.  The passage of time alone removes nothing.
C12_LazyExpiry ==
    [][/\ \A s \in Sessions, ts \in Times :
             (on_llm_req(s, ts) /\ s \in DOMAIN muted_until) =>
                IF clock < muted_until[s]
                THEN out'.res = "muted" /\ muted_until' = muted_until
                ELSE /\ out'.res # "muted"
                     /\ DOMAIN muted_until' = (DOMAIN muted_until) \ {s}
                     /\ \A o \in DOMAIN muted_until' : muted_until'[o] = muted_until[o]
                     /\ get_mute_left_time(muted_until', s, clock) = <<"unmuted">>
                     /\ get_mute_until_time(muted_until', s) = <<"unmuted">>
                     /\ \A t \in clock..MaxTime : ~is_muted(muted_until', s, t)
       /\ Tick => muted_until' = muted_until]_vars

\* a request that found an expired entry and removed it; nothing is muted any more
C12_Witness ==
    /\ out.op = "req" /\ out.res # "muted"
    /\ out.sid \in DOMAIN hist_mute_exp
    /\ hist_mute_exp[out.sid] >= 1 /\ clock >= hist_mute_exp[out.sid]
    /\ out.sid \notin DOMAIN muted_until

\* C13: atomic overwrite.  A save that fails, before or after the file was
\* opened for writing, leaves a complete snapshot complete: afterwards the
\* file holds either the document it held before or the complete new one.
C13_AtomicOverwrite ==
    [][disk.kind = "ok" =>
          /\ disk'.kind = "ok"
          /\ \/ disk' = disk
             \/ /\ hist_saved'.muted_until = muted_until'
                /\ hist_saved'.last_generated = last_generated']_vars

\* C14: save failure is swallowed.  When the write fails during a mute, an
\* unmute or the shutdown, the handler ends as it does after a good write:
\* the mute or unmute stands in muted_until, the reply is emitted, and
\* last_generated and generating are untouched, so the state every later
\* admission decision reads does not depend on the outcome of the write.
C14_SaveFailureSwallowed ==
    [][/\ \A s \in Sessions, d \in Durations, a \in BOOLEAN :
             (out'.save \in {"err", "partial"} /\ out'.sid = s /\ llm_mute_command(s, d, a)) =>
                /\ out'.res = "muted" /\ out'.emit
                /\ DOMAIN muted_until' = (DOMAIN muted_until) \cup {s}
                /\ muted_until'[s] = clock + (IF d = <<>> THEN DefaultDuration ELSE d[1])
                /\ \A o \in (DOMAIN muted_until) \ {s} : muted_until'[o] = muted_until[o]
                /\ last_generated' = last_generated /\ generating' = generating
       /\ \A s \in Sessions, a \in BOOLEAN :
             (out'.save \in {"err", "partial"} /\ out'.sid = s /\ llm_unmute_command(s, a)) =>
                /\ out'.res = "removed" /\ out'.emit
                /\ DOMAIN muted_until' = (DOMAIN muted_until) \ {s}
                /\ \A o \in DOMAIN muted_until' : muted_until'[o] = muted_until[o]
                /\ last_generated' = last_generated /\ generating' = generating
       /\ (out'.save \in {"err", "partial"} /\ terminate) =>
                /\ out'.res = "-"
                /\ muted_until' = muted_until
                /\ last_generated' = last_generated /\ generating' = generating]_vars

\* a mute whose write broke off after the file was opened: replied to, in memory
C14_Witness ==
    /\ out.op = "mute" /\ out.save = "partial" /\ out.emit
    /\ out.sid \in DOMAIN muted_until
    /\ disk.kind = "corrupt"

\* C16: unauthorized or disabled commands are dropped.  An llm_mute or
\* llm_unmute command with mute_command.enabled false, or from a sender who
\* is no administrator, emits nothing, writes nothing, and leaves
\* muted_until, last_generated, generating and the snapshot as they were.
C16_DroppedCommands ==
    [][/\ \A s \in Sessions, d \in Durations, a \in BOOLEAN :
             (~(config.mute_enabled /\ a) /\ out'.sid = s /\ llm_mute_command(s, d, a)) =>
                /\ ~out'.emit /\ out'.left = <<>> /\ out'.save = "none"
                /\ UNCHANGED <<muted_until, last_generated, generating, disk>>
       /\ \A s \in Sessions, a \in BOOLEAN :
             (~(config.mute_enabled /\ a) /\ out'.sid = s /\ llm_unmute_command(s, a)) =>
                /\ ~out'.emit /\ out'.save = "none"
                /\ UNCHANGED <<muted_until, last_generated, generating, disk>>]_vars

\* a mute command of a non-administrator, dropped while the feature is enabled
\* and a mute is in force and on file
C16_Witness ==
    /\ out.op = "mute" /\ out.res = "dropped" /\ ~out.emit
    /\ config.mute_enabled
    /\ out.sid \in DOMAIN muted_until /\ clock < muted_until[out.sid]
    /\ disk.kind = "ok"

\* C15: load falls back to empty state.  After initialization with
\* persistence enabled: over a file that is absent, unreadable or malformed,
\* both maps are empty; over a readable snapshot, a field that is missing
\* loads as the empty map and a field that is present loads as stored.
C15_LoadFallback ==
    (out.op = "restart" /\ config.persistence) =>
        /\ disk.kind \in {"absent", "corrupt", "not_object", "mistyped"} =>
              muted_until = EmptyMap /\ last_generated = EmptyMap
        /\ disk.kind = "ok" =>
              /\ "muted_until" \notin disk.fields => muted_until = EmptyMap
              /\ "last_generated" \notin disk.fields => last_generated = EmptyMap
              /\ "muted_until" \in disk.fields =>
                    {<<k, muted_until[k]>> : k \in DOMAIN muted_until} = disk.muted_until
              /\ "last_generated" \in disk.fields =>
                    {<<k, last_generated[k]>> : k \in DOMAIN last_generated}
                       = disk.last_generated

\* the seconds a formatted duration stands for
UnitSeconds(u) ==
    CASE u = "day" -> 86400 [] u = "hour" -> 3600 [] u = "minute" -> 60 [] OTHER -> 1

RECURSIVE SecondsOf(_)
SecondsOf(parts) ==
    IF parts = <<>> THEN 0
    ELSE Head(parts)[1] * UnitSeconds(Head(parts)[2]) + SecondsOf(Tail(parts))

\* a report of get_mute_left_time is right for s: "unmuted" without live
\* entry, else the time left, which is >= 0
LeftTimeRight(report, s) ==
    IF s \in DOMAIN muted_until /\ muted_until[s] > clock
    THEN /\ report[1] = "duration"
         /\ SecondsOf(report[2]) = muted_until[s] - clock
         /\ muted_until[s] - clock >= 0
    ELSE report[1] = "unmuted"

\* C17: remaining mute time.  In every reachable state get_mute_left_time(s)
\* reports "unmuted" when s has no live entry (none, or one with expiry <=
\* now) and expiry - now >= 0 otherwise; so do the reports made by the two
\* callers, the mute rejection of on_llm_req and the reply of llm_mute.
C17_LeftTimeNeverNegative ==
    /\ out.left # <<>> => LeftTimeRight(out.left, out.sid)
    /\ \A s \in Sessions : LeftTimeRight(get_mute_left_time(muted_until, s, clock), s)

\* C18: rejection frame.  A rejected on_llm_req changes neither
\* last_generated nor generating nor the snapshot, and writes nothing; one
\* rejected as muted changes muted_until neither.  Rejected or admitted, a
\* request changes muted_until at most by removing the expired entry of its
\* own session, and never last_generated or the snapshot.
C18_RejectionFrame ==
    [][out'.op = "req" => \A s \in {out'.sid}, ts \in {out'.ts} :
          on_llm_req(s, ts) =>
             /\ out'.res \in {"muted", "cooldown", "generating"} =>
                   generating' = generating
             /\ last_generated' = last_generated
             /\ disk' = disk /\ out'.save = "none"
             /\ out'.res = "muted" => muted_until' = muted_until
             /\ \/ muted_until' = muted_until
                \/ /\ s \in DOMAIN muted_until /\ muted_until[s] <= clock
                   /\ DOMAIN muted_until' = (DOMAIN muted_until) \ {s}
                   /\ \A o \in DOMAIN muted_until' : muted_until'[o] = muted_until[o]]_vars

\* a request rejected for cooldown that removed its own expired mute, while the
\* other session is muted and in flight
C18_Witness ==
    /\ out.op = "req" /\ out.res = "cooldown"
    /\ out.sid \in DOMAIN hist_mute_exp /\ out.sid \notin DOMAIN muted_until
    /\ \E o \in Sessions \ {out.sid} :
          o \in DOMAIN muted_until /\ clock < muted_until[o] /\ o \in generating

\* C19: in-flight is released only by a response or a restart.  A session
\* leaves generating only in a step of on_llm_resp for it or of a restart,
\* and every request of a session in generating is rejected and leaves it
\* there, whatever the clock.
C19_ReleasedOnlyByResponse ==
    [][/\ ~(generating \subseteq generating') =>
             \/ /\ out'.op = "resp" /\ on_llm_resp(out'.sid)
                /\ generating \ generating' = {out'.sid}
             \/ out'.op = "restart" /\ restart
       /\ (out'.op = "req" /\ out'.sid \in generating) =>
             \A s \in {out'.sid}, ts \in {out'.ts} :
                on_llm_req(s, ts) => out'.res # "admit" /\ s \in generating']_vars

\* a request rejected as already generating at the end of time, after a mute of
\* its session has come and expired
C19_Witness ==
    /\ out.op = "req" /\ out.res = "generating"
    /\ clock = MaxTime
    /\ out.sid \in generating
    /\ out.sid \in DOMAIN hist_mute_exp /\ out.sid \notin DOMAIN muted_until

\* C20: a request older than the last completion is rejected.  A request of
\* a session that is not muted, stamped strictly before last_generated[s],
\* is rejected for cooldown, for every interval, 0 included.
C20_OlderThanCompletion ==
    ( /\ out.op = "req" /\ out.res # "muted"
      /\ out.sid \in DOMAIN last_generated
      /\ out.ts < last_generated[out.sid] ) =>
        out.res = "cooldown"

\* such a request under interval 0, of a session that is not in flight
C20_Witness ==
    /\ out.op = "req" /\ out.res = "cooldown"
    /\ config.interval = 0
    /\ out.sid \in DOMAIN last_generated /\ out.ts < last_generated[out.sid]
    /\ out.sid \notin generating

====
